---- MODULE Spec2Model ----
(***************************************************************************)
(* The workflow execution engine of agentic-workflow/backend:              *)
(* services/workflowEngine.ts (executeWorkflow, runWorkflow, processNode,  *)
(* updateExecutionState, evaluateCondition, transformData, formatOutput).  *)
(*                                                                         *)
(* One Execution is followed from the start request to the end of its      *)
(* background run.  Every await of the code is one step; a store call      *)
(* (Supabase table, Redis key) or the agent executor may return normally,  *)
(* raise, or (Supabase, whose returned error the code never reads) be      *)
(* rejected without raising.                                               *)
(***************************************************************************)
EXTENDS Integers, Sequences, FiniteSets, TLC

\* ------------------------------------------------------------------ bounds
\* payload values are 0 .. NumValues-1
NumValues == 2
\* longest generated linear chain (nodes after the trigger)
MaxChain == 3
\* handler invocations remembered by the observer (a sliding window)
MaxTrace == 8
\* deepest nesting of condition branches followed in the model
MaxDepth == 3
NumWorkflowIds == 2   \* workflow ids in use
NumExecs == 2         \* execution ids in use
Retention == 2        \* the key's time to live, in clock ticks
MaxClock == 3         \* the clock stops here

\* --------------------------------------------------------------- constants
\* null (currentNodeId: null) and the empty object {} of the initial state
Null == -1

Values == 0 .. (NumValues - 1)

\* what an observer records for a handler that raised instead of returning
Raised == Null - 1

\* ------------------------------------------------------------- node kinds
\* node.type is one of these; "webhook" stands for any type processNode's
\* switch does not list
TriggerNode(i) == [id |-> i, type |-> "trigger", data |-> "none"]
AgentNode(i) == [id |-> i, type |-> "agent", data |-> "agent"]
ConditionNode(i, c) == [id |-> i, type |-> "condition", data |-> c]
TransformNode(i, c) == [id |-> i, type |-> "transform", data |-> c]
OutputNode(i, f) == [id |-> i, type |-> "output", data |-> f]
OtherNode(i) == [id |-> i, type |-> "webhook", data |-> "none"]

Edge(s, t, h) == [source |-> s, target |-> t, sourceHandle |-> h]

\* the kinds a generated chain draws its nodes from: (type, data)
ChainKinds ==
    { <<"agent", "agent">>, <<"transform", "inc">>, <<"transform", "throw">>,
      <<"output", "text">> }

\* trigger 0 -> 1 -> ... -> Len(ks), node i of kind ks[i]
Chain(ks) ==
    [ name |-> "chain",
      nodes |-> [i \in 1 .. (Len(ks) + 1) |->
                   IF i = 1 THEN TriggerNode(0)
                   ELSE [id |-> i - 1, type |-> ks[i - 1][1], data |-> ks[i - 1][2]]],
      edges |-> [i \in 1 .. Len(ks) |-> Edge(i - 1, i, "none")] ]

Chains ==
    UNION { { Chain(ks) : ks \in [1 .. n -> ChainKinds] } : n \in 1 .. MaxChain }

\* chains with a transform whose code does not compile
SyntaxChains ==
    { Chain(<< <<"transform", "syntax">> >>),
      Chain(<< <<"transform", "syntax">>, <<"agent", "agent">> >>),
      Chain(<< <<"transform", "throw">>, <<"transform", "syntax">>,
               <<"agent", "agent">> >>) }

\* trigger 0 -> condition 1; true -> agent 2 -> output 4; false -> transform 3 -> output 4.
\* trueFirst says which of the two labelled edges is defined first.
CondWorkflow(c, trueFirst) ==
    [ name |-> "cond",
      nodes |-> << TriggerNode(0), ConditionNode(1, c), AgentNode(2),
                   TransformNode(3, "inc"), OutputNode(4, "json") >>,
      edges |-> << Edge(0, 1, "none") >>
                \o (IF trueFirst
                    THEN << Edge(1, 2, "true"), Edge(1, 3, "false") >>
                    ELSE << Edge(1, 3, "false"), Edge(1, 2, "true") >>)
                \o << Edge(2, 4, "none"), Edge(3, 4, "none") >> ]

\* a condition node with only one labelled edge
CondOneEdge(h) ==
    [ name |-> "condOne",
      nodes |-> << TriggerNode(0), ConditionNode(1, "isZero"), AgentNode(2) >>,
      edges |-> << Edge(0, 1, "none"), Edge(1, 2, h) >> ]

NoTrigger ==
    [ name |-> "noTrigger",
      nodes |-> << AgentNode(1), OutputNode(2, "json") >>,
      edges |-> << Edge(1, 2, "none") >> ]

TwoTriggers ==
    [ name |-> "twoTriggers",
      nodes |-> << TriggerNode(0), TriggerNode(5), AgentNode(1), OutputNode(2, "json") >>,
      edges |-> << Edge(0, 1, "none"), Edge(5, 1, "none"), Edge(1, 2, "none") >> ]

\* trigger 0 -> agent 1 -> transform 2 -> agent 1 -> ...
Cycle ==
    [ name |-> "cycle",
      nodes |-> << TriggerNode(0), AgentNode(1), TransformNode(2, "inc") >>,
      edges |-> << Edge(0, 1, "none"), Edge(1, 2, "none"), Edge(2, 1, "none") >> ]

\* an edge whose target is no node of the workflow
Dangling ==
    [ name |-> "dangling",
      nodes |-> << TriggerNode(0), AgentNode(1) >>,
      edges |-> << Edge(0, 1, "none"), Edge(1, 9, "none") >> ]

\* a non-condition node with two outgoing edges
FanOut ==
    [ name |-> "fanOut",
      nodes |-> << TriggerNode(0), TransformNode(1, "inc"), AgentNode(2),
                   OutputNode(3, "text") >>,
      edges |-> << Edge(0, 1, "none"), Edge(1, 2, "none"), Edge(1, 3, "none") >> ]

Unsupported ==
    [ name |-> "unsupported",
      nodes |-> << TriggerNode(0), OtherNode(1) >>,
      edges |-> << Edge(0, 1, "none") >> ]

Workflows ==
    Chains
    \cup SyntaxChains
    \cup { CondWorkflow(c, f) : c \in {"isZero", "throw"}, f \in BOOLEAN }
    \cup { CondOneEdge(h) : h \in {"true", "false"} }
    \cup { NoTrigger, TwoTriggers, Cycle, Dangling, FanOut, Unsupported }

\* a few workflows that between them reach every handler
SmallWorkflows ==
    { Chain(<< <<"transform", "inc">>, <<"output", "text">> >>),
      CondWorkflow("isZero", TRUE),
      Unsupported }

NoWorkflow == [name |-> "none", nodes |-> << >>, edges |-> << >>]

\* ---------------------------------------------------------- graph lookups
\* workflow.nodes.find(node => node.type === 'trigger'): the first one, or
\* undefined (here a node with id Null)
NoNode == [id |-> Null, type |-> "undefined", data |-> "none"]

FindTrigger(w) ==
    IF \E i \in 1 .. Len(w.nodes) : w.nodes[i].type = "trigger"
    THEN w.nodes[CHOOSE i \in 1 .. Len(w.nodes) :
                     /\ w.nodes[i].type = "trigger"
                     /\ \A j \in 1 .. (i - 1) : w.nodes[j].type # "trigger"]
    ELSE NoNode

\* workflow.nodes.find(n => n.id === nodeId): the first one, or undefined
FindNode(w, n) ==
    IF \E i \in 1 .. Len(w.nodes) : w.nodes[i].id = n
    THEN w.nodes[CHOOSE i \in 1 .. Len(w.nodes) :
                     /\ w.nodes[i].id = n
                     /\ \A j \in 1 .. (i - 1) : w.nodes[j].id # n]
    ELSE NoNode

\* the edges that leave a node, last defined first
OutEdgesReversed(w, n) ==
    LET es == SelectSeq(w.edges, LAMBDA e : e.source = n)
    IN [i \in 1 .. Len(es) |-> es[Len(es) + 1 - i]]

\* workflow.edges.filter(edge => edge.source === nodeId), in definition order
OutEdges(w, n) == SelectSeq(w.edges, LAMBDA e : e.source = n)

\* edges.find(edge => (conditionResult && edge.sourceHandle === 'true') ||
\*                    (!conditionResult && edge.sourceHandle === 'false'))
NoEdge == Edge(Null, Null, "undefined")

\* a selection that takes the first edge when no label matches
BranchEdgeOrFirst(edges, conditionResult) ==
    LET Match(e) == \/ (conditionResult /\ e.sourceHandle = "true")
                    \/ (~conditionResult /\ e.sourceHandle = "false")
    IN IF \E i \in 1 .. Len(edges) : Match(edges[i])
       THEN edges[CHOOSE i \in 1 .. Len(edges) :
                      Match(edges[i]) /\ \A j \in 1 .. (i - 1) : ~Match(edges[j])]
       ELSE IF Len(edges) > 0 THEN edges[1] ELSE NoEdge

BranchEdge(edges, conditionResult) ==
    LET Match(e) == \/ (conditionResult /\ e.sourceHandle = "true")
                    \/ (~conditionResult /\ e.sourceHandle = "false")
    IN IF \E i \in 1 .. Len(edges) : Match(edges[i])
       THEN edges[CHOOSE i \in 1 .. Len(edges) :
                      Match(edges[i]) /\ \A j \in 1 .. (i - 1) : ~Match(edges[j])]
       ELSE NoEdge

\* ----------------------------------------------------------- node handlers
\* The user expression of a condition or transform node, run on input:
\* what `new Function('input', ...)` and the call of it do before the code's
\* own try/catch.  "syntax" does not compile, "throw" raises when called.
ExprRaises(code) == code \in {"throw", "syntax"}

ExprValue(code, input) ==
    CASE code = "isZero" -> IF input = 0 THEN 1 ELSE 0
      [] code = "inc" -> IF input \in Values THEN (input + 1) % NumValues ELSE input
      [] OTHER -> Null

\* evaluateCondition: the inner catch (raise at evaluation) and the outer
\* catch (no compile) both return false
evaluateCondition(condition, input) ==
    IF ExprRaises(condition) THEN FALSE ELSE ExprValue(condition, input) # 0

transformDataDropsInput(code, input) ==
    IF ExprRaises(code) THEN Null ELSE ExprValue(code, input)

\* transformData: the inner catch and the outer catch both return input
transformData(code, input) ==
    IF ExprRaises(code) THEN input ELSE ExprValue(code, input)

\* JSON.stringify(input): a string, a value different from input
Stringify(v) == v + NumValues

\* formatOutput with no template: 'json' returns input, 'text' its JSON text
formatOutput(format, input) ==
    IF format = "text" THEN Stringify(input) ELSE input

ErrorMessageRaw(e) == e.message

\* error instanceof Error ? error.message : 'Unknown error'
ErrorMessage(e) == IF e.isError THEN e.message ELSE "Unknown error"

Err(m) == [isError |-> TRUE, message |-> m]
NonError == [isError |-> FALSE, message |-> ""]
NoThrow == [isError |-> FALSE, message |-> "none"]

\* what a raising store call or agent call may throw
StoreThrows == { Err("store error") }
AgentThrows == { Err("agent error"), NonError }

\* ------------------------------------------------------------------ state
VARIABLES
    table,      \* workflows table: the definition stored under the requested id
    found,      \* whether that row exists for the requesting user
    input,      \* the start request's input
    pc,         \* position of the start request, then of the background run
    returned,   \* the start request has returned the execution id
    wid,        \* the workflow id of the start request
    eid,        \* executionId = uuidv4()
    wf,         \* `workflow`: the definition as loaded by executeWorkflow
    rows,       \* table workflow_executions: id -> row
    kv,         \* Redis: key -> value
    expiry,     \* Redis: key -> the time at which the key lapses
    written,    \* observer: key -> the time of the last write to the key
    clock,      \* the time new Date() returns
    state,      \* runWorkflow's in-memory `state` object
    nodeId,     \* processNode's nodeId
    nodeInput,  \* processNode's input
    result,     \* processNode's result / runWorkflow's result
    stack,      \* condition nodes whose branch call has not returned yet
    thrown,     \* the exception caught by runWorkflow's catch
    trace,      \* observer: the last handler invocations [node, in, out]
    dropped,    \* observer: trace has lost its oldest entries
    storeFault, \* observer: a store call raised, was rejected, or the key expired
    raisedAt,   \* observer: the node whose agent handler raised, or Null
    cancelled,  \* the external cancellation signal has been raised
    cancelKeys, \* observer: the nodes that had a stored result at that moment
    afterCancel, \* observer: a handler was invoked after the signal was raised
    visitOrder, \* observer: the nodes in the order of their first handler call
    writeOrder, \* observer: the nodes in the order their result was first written
    storesMayFail, \* environment: store calls may raise or be rejected
    parked      \* the variables of the other Execution while this one steps

vars == << table, found, input, pc, returned, wid, eid, wf, rows, kv, expiry,
           written, clock, state, nodeId, nodeInput, result, stack, thrown, trace,
           dropped, storeFault, raisedAt, cancelled, cancelKeys, afterCancel,
           visitOrder, writeOrder, storesMayFail, parked >>

local == << state, nodeId, nodeInput, result, stack >>
signal == << cancelled, cancelKeys >>
observed == << trace, dropped, raisedAt, signal, afterCancel, visitOrder >>
ghost == << observed, writeOrder >>
redisVars == << kv, expiry, written >>
stores == << rows, redisVars >>
req == << table, found, input, wid, eid >>
env == << clock, storesMayFail, parked >>

WorkflowIds == 1..NumWorkflowIds
ExecIds == 1..NumExecs

\* `workflow:${workflowId}:execution:${executionId}:state`
StateKeyShared(w, e) == << w, 1 >>

StateKey(w, e) == << w, e >>

Keys == WorkflowIds \X ExecIds

NoRow == [status |-> "none", workflow_id |-> Null, result |-> Null, error |-> "",
          completed_at |-> Null]

NoState == [present |-> FALSE, status |-> "none", currentNodeId |-> Null,
            input |-> Null, output |-> Null, nodeResults |-> << >>, error |-> ""]

\* const initialState = { status: 'pending', currentNodeId: null, input,
\*                        output: {}, nodeResults: {} }
InitialState(in) ==
    [present |-> TRUE, status |-> "pending", currentNodeId |-> Null,
     input |-> in, output |-> Null, nodeResults |-> << >>, error |-> ""]

\* the row and the state of this Execution
db == rows[eid]
redis == kv[StateKey(wid, eid)]

\* the other Execution's place when only one Execution is modelled
NoExecution == [pc |-> "none"]

Init ==
    /\ table \in Workflows
    /\ found \in BOOLEAN
    /\ input \in Values
    /\ pc = "start_load"
    /\ returned = FALSE
    /\ wid = 1
    /\ eid = 1
    /\ wf = NoWorkflow
    /\ rows = [i \in ExecIds |-> NoRow]
    /\ kv = [k \in Keys |-> NoState]
    /\ expiry = [k \in Keys |-> 0]
    /\ written = [k \in Keys |-> 0]
    /\ clock = 0
    /\ visitOrder = << >>
    /\ writeOrder = << >>
    /\ storesMayFail = TRUE
    /\ parked = NoExecution
    /\ state = NoState
    /\ nodeId = Null
    /\ nodeInput = Null
    /\ result = Null
    /\ stack = << >>
    /\ thrown = NoThrow
    /\ trace = << >>
    /\ dropped = FALSE
    /\ storeFault = FALSE
    /\ raisedAt = Null
    /\ cancelled = FALSE
    /\ cancelKeys = {}
    /\ afterCancel = FALSE


\* ------------------------------------------------------------ store calls
\* supabase.from('workflow_executions').update(fields).eq('id', executionId):
\* the row, when it exists, with the given fields overwritten
RowRunning(row) == [row EXCEPT !.status = "running"]

\* completed_at: new Date().toISOString()
RowCompletedNoResult(row, r) ==
    [row EXCEPT !.status = "completed", !.completed_at = clock]

RowCompleted(row, r) ==
    [row EXCEPT !.status = "completed", !.completed_at = clock, !.result = r]

RowFailedNoTime(row, m) ==
    [row EXCEPT !.status = "failed", !.error = m]

RowFailed(row, m) ==
    [row EXCEPT !.status = "failed", !.completed_at = clock, !.error = m]

UpdateRow(new) ==
    rows' = [rows EXCEPT ![eid] = IF @.status = "none" THEN @ ELSE new]

\* supabase.from('workflow_executions').insert({ id: executionId, ... })
InsertRow(row) == rows' = [rows EXCEPT ![eid] = row]

\* a set that leaves the time to live of a key that is there as it is
RedisSetKeepsTtl(k, s) ==
    /\ kv' = [kv EXCEPT ![k] = [s EXCEPT !.present = TRUE]]
    /\ expiry' = [expiry EXCEPT ![k] = IF kv[k].present THEN @ ELSE clock + Retention]
    /\ written' = [written EXCEPT ![k] = clock]

\* redis.set(key, JSON.stringify(value), { ex: 3600 })
RedisSet(k, s) ==
    /\ kv' = [kv EXCEPT ![k] = [s EXCEPT !.present = TRUE]]
    /\ expiry' = [expiry EXCEPT ![k] = clock + Retention]
    /\ written' = [written EXCEPT ![k] = clock]

\* updateExecutionState: redis.set of the state under the Execution's key
updateExecutionState(s) == RedisSet(StateKey(wid, eid), s)

\* the exception leaves runWorkflow's try block
Throw(e) == pc' = "catch_get" /\ thrown' = e

\* the observer notes one handler invocation
Observe(n, in, out) ==
    /\ trace' = IF Len(trace) < MaxTrace
                THEN Append(trace, [node |-> n, in |-> in, out |-> out])
                ELSE Append(Tail(trace), [node |-> n, in |-> in, out |-> out])
    /\ dropped' = (dropped \/ Len(trace) >= MaxTrace)
    /\ afterCancel' = (afterCancel \/ cancelled)
    /\ visitOrder' = IF \E i \in 1..Len(visitOrder) : visitOrder[i] = n
                     THEN visitOrder
                     ELSE Append(visitOrder, n)

\* ---------------------------------------------------- executeWorkflow
\* a start that goes on whether or not the workflow row was found
StartLoadUnchecked ==
    /\ pc = "start_load"
    /\ wf' = table
    /\ pc' = "start_insert"
    /\ UNCHANGED << req, env, returned, stores, local, thrown, storeFault, ghost >>

\* select the workflow by id and user; `error || !workflow` throws to the caller
StartLoad ==
    /\ pc = "start_load"
    /\ \/ /\ found
          /\ wf' = table
          /\ pc' = "start_insert"
          /\ UNCHANGED << thrown, storeFault >>
       \/ /\ ~found
          /\ pc' = "start_rejected"
          /\ thrown' = Err("Workflow not found")
          /\ UNCHANGED << wf, storeFault >>
       \/ /\ found
          /\ pc' = "start_rejected"
          /\ thrown' = Err("Workflow not found")
          /\ storesMayFail
          /\ storeFault' = TRUE
          /\ UNCHANGED wf
    /\ UNCHANGED << req, env, returned, stores, local, ghost >>

\* insert the execution row with status 'pending'
StartInsert ==
    /\ pc = "start_insert"
    /\ \/ /\ InsertRow([NoRow EXCEPT !.status = "pending", !.workflow_id = wid])
          /\ pc' = "start_setState"
          /\ UNCHANGED << thrown, storeFault >>
       \/ /\ pc' = "start_setState"
          /\ storesMayFail
          /\ storeFault' = TRUE
          /\ UNCHANGED << rows, thrown >>
       \/ /\ \E e \in StoreThrows : thrown' = e
          /\ pc' = "start_rejected"
          /\ storesMayFail
          /\ storeFault' = TRUE
          /\ UNCHANGED rows
    /\ UNCHANGED << req, env, returned, wf, redisVars, local, ghost >>

\* a start that returns only when the run it started has returned
StartSetStateAwaitsRun ==
    /\ pc = "start_setState"
    /\ updateExecutionState(InitialState(input))
    /\ pc' = "scheduled"
    /\ UNCHANGED << req, env, returned, wf, rows, local, thrown, storeFault, ghost >>

\* write the initial state, schedule runWorkflow, return the execution id
StartSetState ==
    /\ pc = "start_setState"
    /\ \/ /\ updateExecutionState(InitialState(input))
          /\ pc' = "scheduled"
          /\ returned' = TRUE
          /\ UNCHANGED << thrown, storeFault >>
       \/ /\ \E e \in StoreThrows : thrown' = e
          /\ pc' = "start_rejected"
          /\ storesMayFail
          /\ storeFault' = TRUE
          /\ UNCHANGED << redisVars, returned >>
    /\ UNCHANGED << req, env, wf, rows, local, ghost >>

\* -------------------------------------------------------- runWorkflow
\* update the row to status 'running'
RunSetRunning ==
    /\ pc = "scheduled"
    /\ \/ /\ UpdateRow(RowRunning(db))
          /\ pc' = "run_getState"
          /\ UNCHANGED << thrown, storeFault >>
       \/ /\ pc' = "run_getState"
          /\ storesMayFail
          /\ storeFault' = TRUE
          /\ UNCHANGED << rows, thrown >>
       \/ /\ \E e \in StoreThrows : Throw(e)
          /\ storesMayFail
          /\ storeFault' = TRUE
          /\ UNCHANGED rows
    /\ UNCHANGED << req, env, returned, wf, redisVars, local, ghost >>

\* read the state, set state.status = 'running', find the trigger node and
\* set state.currentNodeId to it
RunGetState ==
    /\ pc = "run_getState"
    /\ \/ /\ redis.present
          /\ FindTrigger(wf) # NoNode
          /\ state' = [redis EXCEPT !.status = "running",
                                    !.currentNodeId = FindTrigger(wf).id]
          /\ pc' = "run_writeStart"
          /\ UNCHANGED << thrown, storeFault >>
       \/ /\ redis.present
          /\ FindTrigger(wf) = NoNode
          /\ state' = [redis EXCEPT !.status = "running"]
          /\ Throw(Err("No trigger node found in workflow"))
          /\ UNCHANGED storeFault
       \/ /\ ~redis.present
          /\ Throw(Err("Execution state not found"))
          /\ UNCHANGED << state, storeFault >>
       \/ /\ \E e \in StoreThrows : Throw(e)
          /\ storesMayFail
          /\ storeFault' = TRUE
          /\ UNCHANGED state
    /\ UNCHANGED << req, env, returned, wf, stores, nodeId, nodeInput, result, stack, ghost >>

\* write the state, then call processNode(triggerNode.id, state.input, ...)
RunWriteStart ==
    /\ pc = "run_writeStart"
    /\ \/ /\ updateExecutionState(state)
          /\ nodeId' = state.currentNodeId
          /\ nodeInput' = state.input
          /\ pc' = "pn_enter"
          /\ UNCHANGED << thrown, storeFault >>
       \/ /\ \E e \in StoreThrows : Throw(e)
          /\ storesMayFail
          /\ storeFault' = TRUE
          /\ UNCHANGED << redisVars, nodeId, nodeInput >>
    /\ UNCHANGED << req, env, returned, wf, rows, state, result, stack, ghost >>


\* -------------------------------------------------------- processNode
\* workflow.nodes.find(n => n.id === nodeId), were it run on the stored row
NodeOfTable == FindNode(table, nodeId)

\* const node = workflow.nodes.find((n: any) => n.id === nodeId)
Node == FindNode(wf, nodeId)

\* state.nodeResults[nodeId] = result
Put(f, k, v) == [x \in (DOMAIN f) \cup {k} |-> IF x = k THEN v ELSE f[x]]

\* find the node, set state.currentNodeId, write the state
PnEnter ==
    /\ pc = "pn_enter"
    /\ \/ /\ Node = NoNode
          /\ Throw(Err("Node not found"))
          /\ UNCHANGED << state, redisVars, storeFault >>
       \/ /\ Node # NoNode
          /\ state' = [state EXCEPT !.currentNodeId = nodeId]
          /\ \/ /\ updateExecutionState(state')
                /\ pc' = "pn_handle"
                /\ UNCHANGED << thrown, storeFault >>
             \/ /\ \E e \in StoreThrows : Throw(e)
                /\ storesMayFail
                /\ storeFault' = TRUE
                /\ UNCHANGED redisVars
    /\ UNCHANGED << req, env, returned, wf, rows, nodeId, nodeInput, result, stack, ghost >>

\* case 'trigger': result = input
HandleTrigger ==
    /\ pc = "pn_handle"
    /\ Node.type = "trigger"
    /\ result' = nodeInput
    /\ Observe(nodeId, nodeInput, result')
    /\ pc' = "pn_store"
    /\ UNCHANGED << req, env, returned, wf, stores, state, nodeId, nodeInput, stack,
                    thrown, storeFault, raisedAt, signal, writeOrder >>

\* case 'agent': result = await executeAgentAction(...), which returns some
\* value or raises
HandleAgent ==
    /\ pc = "pn_handle"
    /\ Node.type = "agent"
    /\ \/ /\ \E v \in Values : result' = v
          /\ Observe(nodeId, nodeInput, result')
          /\ pc' = "pn_store"
          /\ UNCHANGED << thrown, raisedAt >>
       \/ /\ \E e \in AgentThrows : Throw(e)
          /\ Observe(nodeId, nodeInput, Raised)
          /\ raisedAt' = nodeId
          /\ UNCHANGED result
    /\ UNCHANGED << req, env, returned, wf, stores, state, nodeId, nodeInput, stack,
                    storeFault, signal, writeOrder >>

\* case 'condition': evaluate, pick the edge labelled with the result, and
\* call processNode(nextEdge.target, input, ...) before going on
HandleCondition ==
    /\ pc = "pn_handle"
    /\ Node.type = "condition"
    /\ LET conditionResult == evaluateCondition(Node.data, nodeInput)
           nextEdge == BranchEdge(OutEdges(wf, nodeId), conditionResult)
       IN /\ Observe(nodeId, nodeInput, IF conditionResult THEN 1 ELSE 0)
          /\ \/ /\ nextEdge = NoEdge
                /\ Throw(Err("No edge found for condition result"))
                /\ UNCHANGED << nodeId, stack >>
             \/ /\ nextEdge # NoEdge
                /\ Len(stack) < MaxDepth
                /\ stack' = Append(stack, nodeId)
                /\ nodeId' = nextEdge.target
                /\ pc' = "pn_enter"
                /\ UNCHANGED thrown
    /\ UNCHANGED << req, env, returned, wf, stores, state, nodeInput, result,
                    storeFault, raisedAt, signal, writeOrder >>

\* case 'transform': result = transformData(type, code, input)
HandleTransform ==
    /\ pc = "pn_handle"
    /\ Node.type = "transform"
    /\ result' = transformData(Node.data, nodeInput)
    /\ Observe(nodeId, nodeInput, result')
    /\ pc' = "pn_store"
    /\ UNCHANGED << req, env, returned, wf, stores, state, nodeId, nodeInput, stack,
                    thrown, storeFault, raisedAt, signal, writeOrder >>

\* case 'output': result = formatOutput(format, template, input)
HandleOutput ==
    /\ pc = "pn_handle"
    /\ Node.type = "output"
    /\ result' = formatOutput(Node.data, nodeInput)
    /\ Observe(nodeId, nodeInput, result')
    /\ pc' = "pn_store"
    /\ UNCHANGED << req, env, returned, wf, stores, state, nodeId, nodeInput, stack,
                    thrown, storeFault, raisedAt, signal, writeOrder >>

\* default: throw new Error(`Unsupported node type: ...`)
HandleUnsupported ==
    /\ pc = "pn_handle"
    /\ Node.type \notin {"trigger", "agent", "condition", "transform", "output"}
    /\ Throw(Err("Unsupported node type"))
    /\ UNCHANGED << req, env, returned, wf, stores, local, storeFault, ghost >>

\* store the node result, write the state, then return the result (output
\* node, or no outgoing edge) or call processNode on edges[0].target
PnStore ==
    /\ pc = "pn_store"
    /\ state' = [state EXCEPT !.nodeResults = Put(@, nodeId, result)]
    /\ \/ /\ updateExecutionState(state')
          /\ writeOrder' = IF \E i \in 1..Len(writeOrder) : writeOrder[i] = nodeId
                           THEN writeOrder
                           ELSE Append(writeOrder, nodeId)
          /\ LET edges == OutEdges(wf, nodeId)
             IN IF Node.type = "output" \/ Len(edges) = 0
                THEN IF stack = << >>
                     THEN /\ pc' = "run_final"
                          /\ UNCHANGED << nodeId, nodeInput, stack >>
                     ELSE /\ nodeId' = stack[Len(stack)]
                          /\ stack' = SubSeq(stack, 1, Len(stack) - 1)
                          /\ pc' = "pn_store"
                          /\ UNCHANGED nodeInput
                ELSE /\ nodeId' = edges[1].target
                     /\ nodeInput' = result
                     /\ pc' = "pn_enter"
                     /\ UNCHANGED stack
          /\ UNCHANGED << thrown, storeFault >>
       \/ /\ \E e \in StoreThrows : Throw(e)
          /\ storesMayFail
          /\ storeFault' = TRUE
          /\ UNCHANGED << redisVars, nodeId, nodeInput, stack, writeOrder >>
    /\ UNCHANGED << req, env, returned, wf, rows, result, observed >>

\* ------------------------------------------- runWorkflow, after processNode
\* a completion that leaves the stored state as it is and goes on to the row
RunFinalUnwritten ==
    /\ pc = "run_final"
    /\ state' = [state EXCEPT !.status = "completed", !.output = result]
    /\ pc' = "run_record"
    /\ UNCHANGED << req, env, returned, wf, stores, nodeId, nodeInput, result, stack,
                    thrown, storeFault, ghost >>

\* state.status = 'completed'; state.output = result; write the state
RunFinal ==
    /\ pc = "run_final"
    /\ state' = [state EXCEPT !.status = "completed", !.output = result]
    /\ \/ /\ updateExecutionState(state')
          /\ pc' = "run_record"
          /\ UNCHANGED << thrown, storeFault >>
       \/ /\ \E e \in StoreThrows : Throw(e)
          /\ storesMayFail
          /\ storeFault' = TRUE
          /\ UNCHANGED redisVars
    /\ UNCHANGED << req, env, returned, wf, rows, nodeId, nodeInput, result, stack, ghost >>

\* update the row to status 'completed' with completed_at and result
RunRecord ==
    /\ pc = "run_record"
    /\ \/ /\ UpdateRow(RowCompleted(db, result))
          /\ pc' = "done"
          /\ UNCHANGED << thrown, storeFault >>
       \/ /\ pc' = "done"
          /\ storesMayFail
          /\ storeFault' = TRUE
          /\ UNCHANGED << rows, thrown >>
       \/ /\ \E e \in StoreThrows : Throw(e)
          /\ storesMayFail
          /\ storeFault' = TRUE
          /\ UNCHANGED rows
    /\ UNCHANGED << req, env, returned, wf, redisVars, local, ghost >>

\* a catch that builds the failed state anew instead of reading the stored one
CatchGetAnew ==
    /\ pc = "catch_get"
    /\ state' = [InitialState(input) EXCEPT !.status = "failed",
                                            !.error = ErrorMessage(thrown)]
    /\ pc' = "catch_set"
    /\ UNCHANGED << req, env, returned, wf, stores, nodeId, nodeInput, result, stack,
                    thrown, storeFault, ghost >>

\* catch: read the state again; when it is there set status 'failed' and error
CatchGet ==
    /\ pc = "catch_get"
    /\ \/ /\ redis.present
          /\ state' = [redis EXCEPT !.status = "failed", !.error = ErrorMessage(thrown)]
          /\ pc' = "catch_set"
          /\ UNCHANGED storeFault
       \/ /\ ~redis.present
          /\ pc' = "catch_record"
          /\ UNCHANGED << state, storeFault >>
       \/ /\ pc' = "crashed"
          /\ storesMayFail
          /\ storeFault' = TRUE
          /\ UNCHANGED state
    /\ UNCHANGED << req, env, returned, wf, stores, nodeId, nodeInput, result, stack,
                    thrown, ghost >>

\* catch: write the failed state
CatchSet ==
    /\ pc = "catch_set"
    /\ \/ /\ updateExecutionState(state)
          /\ pc' = "catch_record"
          /\ UNCHANGED storeFault
       \/ /\ pc' = "crashed"
          /\ storesMayFail
          /\ storeFault' = TRUE
          /\ UNCHANGED redisVars
    /\ UNCHANGED << req, env, returned, wf, rows, local, thrown, ghost >>

\* catch: update the row to status 'failed' with completed_at and error
CatchRecord ==
    /\ pc = "catch_record"
    /\ \/ /\ UpdateRow(RowFailed(db, ErrorMessage(thrown)))
          /\ pc' = "done"
          /\ UNCHANGED storeFault
       \/ /\ pc' = "done"
          /\ storesMayFail
          /\ storeFault' = TRUE
          /\ UNCHANGED rows
       \/ /\ pc' = "crashed"
          /\ storesMayFail
          /\ storeFault' = TRUE
          /\ UNCHANGED rows
    /\ UNCHANGED << req, env, returned, wf, redisVars, local, thrown, ghost >>

\* the state key's one-hour expiry passes with no write in between
Expire ==
    /\ redis.present
    /\ kv' = [kv EXCEPT ![StateKey(wid, eid)] = NoState]
    /\ storeFault' = TRUE
    /\ UNCHANGED << req, env, pc, returned, wf, rows, expiry, written, local, thrown,
                    ghost >>

\* The external cancellation signal is raised between two nodes.  Nothing in
\* executeWorkflow, runWorkflow or processNode reads it.
Cancel ==
    /\ pc = "pn_enter"
    /\ trace # << >>
    /\ ~cancelled
    /\ cancelled' = TRUE
    /\ cancelKeys' = DOMAIN redis.nodeResults
    /\ UNCHANGED << req, env, pc, returned, wf, stores, local, thrown, trace, dropped,
                    storeFault, raisedAt, afterCancel, visitOrder, writeOrder >>

\* the steps of the program itself
Step ==
    \/ StartLoad \/ StartInsert \/ StartSetState
    \/ RunSetRunning \/ RunGetState \/ RunWriteStart
    \/ PnEnter \/ HandleTrigger \/ HandleAgent \/ HandleCondition
    \/ HandleTransform \/ HandleOutput \/ HandleUnsupported \/ PnStore
    \/ RunFinal \/ RunRecord \/ CatchGet \/ CatchSet \/ CatchRecord

Next ==
    \/ StartLoad \/ StartInsert \/ StartSetState
    \/ RunSetRunning \/ RunGetState \/ RunWriteStart
    \/ PnEnter \/ HandleTrigger \/ HandleAgent \/ HandleCondition
    \/ HandleTransform \/ HandleOutput \/ HandleUnsupported \/ PnStore
    \/ RunFinal \/ RunRecord \/ CatchGet \/ CatchSet \/ CatchRecord
    \/ Expire

Spec == Init /\ [][Next]_vars

\* the same program, with an environment that may raise the cancellation signal
NextCancel == Next \/ Cancel

CancelSpec == Init /\ [][NextCancel]_vars

\* ------------------------------- the HTTP controller and executeWorkflowService
\* the state objects executeWorkflowService writes:
\* { status, input, currentNode: null, result | error }
ServiceState(st, in, res, err) ==
    [present |-> TRUE, status |-> st, currentNodeId |-> Null, input |-> in,
     output |-> res, nodeResults |-> << >>, error |-> err]

\* controller executeWorkflow: getWorkflowByIdService, 404 when it returns
\* null, else executeWorkflowService
CtlExecute ==
    /\ pc = "start_load"
    /\ \/ /\ found
          /\ pc' = "svc_load"
          /\ UNCHANGED << thrown, storeFault >>
       \/ /\ ~found
          /\ pc' = "start_rejected"
          /\ thrown' = Err("Workflow not found")
          /\ UNCHANGED storeFault
       \/ /\ storesMayFail
          /\ \E e \in StoreThrows : thrown' = e
          /\ pc' = "start_rejected"
          /\ storeFault' = TRUE
    /\ UNCHANGED << req, env, returned, wf, stores, local, ghost >>

\* executeWorkflowService: getWorkflowById; null throws 'Workflow not found'
SvcLoad ==
    /\ pc = "svc_load"
    /\ \/ /\ found
          /\ wf' = table
          /\ pc' = "svc_insert"
          /\ UNCHANGED << thrown, storeFault >>
       \/ /\ ~found
          /\ pc' = "start_rejected"
          /\ thrown' = Err("Workflow not found")
          /\ UNCHANGED << wf, storeFault >>
       \/ /\ storesMayFail
          /\ \E e \in StoreThrows : thrown' = e
          /\ pc' = "start_rejected"
          /\ storeFault' = TRUE
          /\ UNCHANGED wf
    /\ UNCHANGED << req, env, returned, stores, local, ghost >>

\* insert the execution row with status 'running'; an error of the insert is
\* thrown to the caller
SvcInsert ==
    /\ pc = "svc_insert"
    /\ \/ /\ InsertRow([NoRow EXCEPT !.status = "running", !.workflow_id = wid])
          /\ pc' = "svc_setState"
          /\ UNCHANGED << thrown, storeFault >>
       \/ /\ storesMayFail
          /\ \E e \in StoreThrows : thrown' = e
          /\ pc' = "start_rejected"
          /\ storeFault' = TRUE
          /\ UNCHANGED rows
    /\ UNCHANGED << req, env, returned, wf, redisVars, local, ghost >>

\* write the state with status 'running', schedule the run, return the execution
SvcSetState ==
    /\ pc = "svc_setState"
    /\ \/ /\ RedisSet(StateKey(wid, eid), ServiceState("running", input, Null, ""))
          /\ pc' = "svc_scheduled"
          /\ returned' = TRUE
          /\ UNCHANGED << thrown, storeFault >>
       \/ /\ storesMayFail
          /\ \E e \in StoreThrows : thrown' = e
          /\ pc' = "start_rejected"
          /\ storeFault' = TRUE
          /\ UNCHANGED << redisVars, returned >>
    /\ UNCHANGED << req, env, wf, rows, local, ghost >>

\* the timer callback: wait, then
\* result = { output: `Executed workflow ${workflow.name} with input: ...` }
SvcRun ==
    /\ pc = "svc_scheduled"
    /\ result' = Stringify(input)
    /\ pc' = "svc_record"
    /\ UNCHANGED << req, env, returned, wf, stores, state, nodeId, nodeInput, stack,
                    thrown, storeFault, ghost >>

\* update the row to status 'completed' with completed_at and result
SvcRecord ==
    /\ pc = "svc_record"
    /\ \/ /\ UpdateRow(RowCompleted(db, result))
          /\ pc' = "svc_final"
          /\ UNCHANGED << thrown, storeFault >>
       \/ /\ pc' = "svc_final"
          /\ storesMayFail
          /\ storeFault' = TRUE
          /\ UNCHANGED << rows, thrown >>
       \/ /\ storesMayFail
          /\ \E e \in StoreThrows : thrown' = e
          /\ pc' = "svc_catch_record"
          /\ storeFault' = TRUE
          /\ UNCHANGED rows
    /\ UNCHANGED << req, env, returned, wf, redisVars, local, ghost >>

\* write the state with status 'completed' and the result
SvcFinal ==
    /\ pc = "svc_final"
    /\ \/ /\ RedisSet(StateKey(wid, eid), ServiceState("completed", input, result, ""))
          /\ pc' = "done"
          /\ UNCHANGED << thrown, storeFault >>
       \/ /\ storesMayFail
          /\ \E e \in StoreThrows : thrown' = e
          /\ pc' = "svc_catch_record"
          /\ storeFault' = TRUE
          /\ UNCHANGED redisVars
    /\ UNCHANGED << req, env, returned, wf, rows, local, ghost >>

\* catch: update the row to status 'failed' with completed_at and error
SvcCatchRecord ==
    /\ pc = "svc_catch_record"
    /\ \/ /\ UpdateRow(RowFailed(db, ErrorMessage(thrown)))
          /\ pc' = "svc_catch_set"
          /\ UNCHANGED storeFault
       \/ /\ pc' = "svc_catch_set"
          /\ storesMayFail
          /\ storeFault' = TRUE
          /\ UNCHANGED rows
       \/ /\ pc' = "crashed"
          /\ storesMayFail
          /\ storeFault' = TRUE
          /\ UNCHANGED rows
    /\ UNCHANGED << req, env, returned, wf, redisVars, local, thrown, ghost >>

\* catch: write the state with status 'failed' and the error
SvcCatchSet ==
    /\ pc = "svc_catch_set"
    /\ \/ /\ RedisSet(StateKey(wid, eid),
                       ServiceState("failed", input, Null, ErrorMessage(thrown)))
          /\ pc' = "done"
          /\ UNCHANGED storeFault
       \/ /\ pc' = "crashed"
          /\ storesMayFail
          /\ storeFault' = TRUE
          /\ UNCHANGED redisVars
    /\ UNCHANGED << req, env, returned, wf, rows, local, thrown, ghost >>

SvcStep ==
    \/ CtlExecute \/ SvcLoad \/ SvcInsert \/ SvcSetState
    \/ SvcRun \/ SvcRecord \/ SvcFinal \/ SvcCatchRecord \/ SvcCatchSet

\* a start request takes either start path
PathsNext == Next \/ SvcStep

PathsSpec == Init /\ [][PathsNext]_vars

\* ------------------------------------------- edits of the workflow definition
\* updateWorkflowService: the row of the workflows table gets other nodes and edges
UpdateWorkflow ==
    /\ found
    /\ \E w \in SmallWorkflows \ {table} : table' = w
    /\ UNCHANGED << found, input, wid, eid, env, pc, returned, wf, stores, local,
                    thrown, storeFault, ghost >>

\* deleteWorkflowService: the row is deleted, and with it the rows of
\* workflow_executions that reference it (ON DELETE CASCADE)
DeleteWorkflow ==
    /\ found
    /\ found' = FALSE
    /\ rows' = [i \in ExecIds |->
                  IF rows[i].workflow_id = wid THEN NoRow ELSE rows[i]]
    /\ UNCHANGED << table, input, wid, eid, env, pc, returned, wf, redisVars,
                    local, thrown, storeFault, ghost >>

UpdateInit == Init /\ table \in SmallWorkflows

UpdateNext == Next \/ UpdateWorkflow \/ DeleteWorkflow

UpdateSpec == UpdateInit /\ [][UpdateNext]_vars

\* ------------------------------------------------------------------ time
\* time passes
Tick ==
    /\ clock < MaxClock
    /\ clock' = clock + 1
    /\ UNCHANGED << req, storesMayFail, parked, pc, returned, wf, stores, local,
                    thrown, storeFault, ghost >>

\* Redis drops a key whose time to live has run out
Lapse ==
    /\ \E k \in Keys :
          /\ kv[k].present
          /\ clock >= expiry[k]
          /\ kv' = [kv EXCEPT ![k] = NoState]
    /\ UNCHANGED << req, env, pc, returned, wf, rows, expiry, written, local, thrown,
                    storeFault, ghost >>

TimedInit == Init /\ table \in SmallWorkflows

TimedNext == Step \/ Tick \/ Lapse

TimedSpec == TimedInit /\ [][TimedNext]_vars

\* getWorkflowExecution: the row selected by id and workflow_id, null when
\* there is none; else the row with `state`, the parsed value of the key or null
NoExecutionFound == [found |-> FALSE, execution |-> NoRow, state |-> NoState]

getWorkflowExecution(w, e) ==
    IF rows[e].status = "none" \/ rows[e].workflow_id # w
    THEN NoExecutionFound
    ELSE [found |-> TRUE, execution |-> rows[e],
          state |-> IF kv[StateKey(w, e)].present THEN kv[StateKey(w, e)] ELSE NoState]

\* the terminal update of runWorkflow issued once more, as it was issued
ReapplyCompleted ==
    /\ pc = "done"
    /\ db.status = "completed"
    /\ UpdateRow(RowCompleted(db, db.result))
    /\ UNCHANGED << req, env, pc, returned, wf, redisVars, local, thrown, storeFault,
                    ghost >>

ReapplyFailed ==
    /\ pc = "done"
    /\ db.status = "failed"
    /\ UpdateRow(RowFailed(db, db.error))
    /\ UNCHANGED << req, env, pc, returned, wf, redisVars, local, thrown, storeFault,
                    ghost >>

ReapplyNext == Step \/ Tick \/ ReapplyCompleted \/ ReapplyFailed

ReapplySpec == TimedInit /\ [][ReapplyNext]_vars

\* ------------------------------------------------ two concurrent Executions
\* the variables one Execution owns: its request, its position and its locals
Context ==
    [table |-> table, found |-> found, input |-> input, pc |-> pc,
     returned |-> returned, wid |-> wid, eid |-> eid, wf |-> wf, state |-> state,
     nodeId |-> nodeId, nodeInput |-> nodeInput, result |-> result,
     stack |-> stack, thrown |-> thrown, trace |-> trace, dropped |-> dropped,
     storeFault |-> storeFault, raisedAt |-> raisedAt, cancelled |-> cancelled,
     cancelKeys |-> cancelKeys, afterCancel |-> afterCancel,
     visitOrder |-> visitOrder, writeOrder |-> writeOrder]

\* a second call of executeWorkflow(w, in, userId), with its own executionId
StartContext(t, w, e, in) ==
    [table |-> t, found |-> TRUE, input |-> in, pc |-> "start_load",
     returned |-> FALSE, wid |-> w, eid |-> e, wf |-> NoWorkflow,
     state |-> NoState, nodeId |-> Null, nodeInput |-> Null, result |-> Null,
     stack |-> << >>, thrown |-> NoThrow, trace |-> << >>, dropped |-> FALSE,
     storeFault |-> FALSE, raisedAt |-> Null, cancelled |-> FALSE,
     cancelKeys |-> {}, afterCancel |-> FALSE, visitOrder |-> << >>,
     writeOrder |-> << >>]

\* Two start requests, of the same workflow or of two workflows, whose runs are
\* both on the event loop; the store calls return normally.
PairInit ==
    /\ table \in SmallWorkflows
    /\ found = TRUE
    /\ input \in Values
    /\ pc = "start_load"
    /\ returned = FALSE
    /\ wid = 1
    /\ eid = 1
    /\ wf = NoWorkflow
    /\ rows = [i \in ExecIds |-> NoRow]
    /\ kv = [k \in Keys |-> NoState]
    /\ expiry = [k \in Keys |-> 0]
    /\ written = [k \in Keys |-> 0]
    /\ clock = 0
    /\ state = NoState
    /\ nodeId = Null
    /\ nodeInput = Null
    /\ result = Null
    /\ stack = << >>
    /\ thrown = NoThrow
    /\ trace = << >>
    /\ dropped = FALSE
    /\ storeFault = FALSE
    /\ raisedAt = Null
    /\ cancelled = FALSE
    /\ cancelKeys = {}
    /\ afterCancel = FALSE
    /\ visitOrder = << >>
    /\ writeOrder = << >>
    /\ storesMayFail = FALSE
    /\ \E t \in SmallWorkflows, w \in WorkflowIds, in \in Values :
          parked = StartContext(t, w, 2, in)

\* an await of one Execution yields and the event loop resumes the other one
Switch ==
    /\ parked # NoExecution
    /\ parked' = Context
    /\ table' = parked.table
    /\ found' = parked.found
    /\ input' = parked.input
    /\ pc' = parked.pc
    /\ returned' = parked.returned
    /\ wid' = parked.wid
    /\ eid' = parked.eid
    /\ wf' = parked.wf
    /\ state' = parked.state
    /\ nodeId' = parked.nodeId
    /\ nodeInput' = parked.nodeInput
    /\ result' = parked.result
    /\ stack' = parked.stack
    /\ thrown' = parked.thrown
    /\ trace' = parked.trace
    /\ dropped' = parked.dropped
    /\ storeFault' = parked.storeFault
    /\ raisedAt' = parked.raisedAt
    /\ cancelled' = parked.cancelled
    /\ cancelKeys' = parked.cancelKeys
    /\ afterCancel' = parked.afterCancel
    /\ visitOrder' = parked.visitOrder
    /\ writeOrder' = parked.writeOrder
    /\ UNCHANGED << stores, clock, storesMayFail >>

PairNext == Step \/ Switch

PairSpec == PairInit /\ [][PairNext]_vars

\* Every awaited call returns or raises, and the event loop then runs the
\* continuation: the program takes its next step whenever it has one.
FairSpec == Spec /\ WF_vars(Step)


\* ================================================================ claims
Terminal == {"completed", "failed"}
RunEnded == pc \in {"done", "crashed"}
NoFault == ~storeFault /\ raisedAt = Null

\* the handler invocations seen so far are exactly the first ones of the
\* chain, in chain order, each fed the output of the one before
ChainPrefix ==
    /\ ~dropped
    /\ Len(trace) <= Len(wf.nodes)
    /\ \A i \in 1 .. Len(trace) :
         /\ trace[i].node = wf.nodes[i].id
         /\ trace[i].in = (IF i = 1 THEN input ELSE trace[i - 1].out)
         /\ wf.nodes[i].type = "trigger" => trace[i].out = trace[i].in
         /\ wf.nodes[i].data = "inc" => trace[i].out = (trace[i].in + 1) % NumValues
         /\ wf.nodes[i].data = "text" => trace[i].out = trace[i].in + NumValues

ChainDone ==
    /\ Len(trace) = Len(wf.nodes)
    /\ db.status = "completed"
    /\ db.result = trace[Len(trace)].out
    /\ redis.present
    /\ redis.status = "completed"
    /\ redis.output = db.result

\* no node before the last one is an output node
OutputOnlyLast(w) ==
    \A i \in 1 .. (Len(w.nodes) - 1) : w.nodes[i].type # "output"

\* the run has a next step until it has ended
Progress == (returned /\ ~RunEnded) => ENABLED Step

Visited(n) == \E i \in 1 .. Len(trace) : trace[i].node = n

\* the target of the first edge of condition node c labelled h
BranchTarget(w, c, h) ==
    LET es == SelectSeq(OutEdges(w, c), LAMBDA e : e.sourceHandle = h)
    IN es[1].target

\* C2: in a workflow whose condition node has one edge labelled true and one
\* labelled false, in either order, a condition that evaluates to true has
\* the false edge's target never visited, and the other way round; at the end
\* of a run without fault the taken edge's target has been visited.
C2_OnlyMatchingBranch ==
    (wf.name = "cond" /\ ~dropped) =>
        \A i \in 1 .. Len(trace) :
            wf.nodes[2].id = trace[i].node =>
                LET taken == IF trace[i].out = 1 THEN "true" ELSE "false"
                    other == IF trace[i].out = 1 THEN "false" ELSE "true"
                IN /\ ~Visited(BranchTarget(wf, trace[i].node, other))
                   /\ (pc = "done" /\ NoFault) =>
                          Visited(BranchTarget(wf, trace[i].node, taken))

\* ---- C3
TriggerCount(w) == Cardinality({i \in 1 .. Len(w.nodes) : w.nodes[i].type = "trigger"})

\* C3: an Execution of a workflow with zero or with several trigger nodes
\* never has status running, in the row or in the state key, and when its
\* run has ended it is failed.
C3_BadTriggersNeverRun ==
    (wf # NoWorkflow /\ TriggerCount(wf) # 1) =>
        /\ db.status # "running"
        /\ redis.status # "running"
        /\ (pc = "done" /\ ~storeFault) => db.status = "failed"

\* ---- C4
\* C4: on the workflow whose edges form a cycle, a run once scheduled ends.
C4_CycleTerminates == []((wf = Cycle /\ pc = "scheduled") => <>RunEnded)

\* ---- C5
Legal(a, b) ==
    \/ a = b
    \/ << a, b >> \in { << "none", "pending" >>, << "pending", "running" >>,
                        << "running", "completed" >>, << "running", "failed" >> }

\* C5: the status of the row, and of the state key while it is there, only
\* ever steps pending -> running, running -> completed, running -> failed.
C5_LegalTransitions ==
    [][ /\ Legal(db.status, db'.status)
        /\ (redis.present /\ redis'.present) => Legal(redis.status, redis'.status)
      ]_vars

\* ---- C6
\* C6: once the row or the state key holds completed or failed, no write
\* changes its status, result or error.
C6_TerminalImmutable ==
    [][ /\ db.status \in Terminal => db' = db
        /\ (redis.present /\ redis.status \in Terminal /\ redis'.present) =>
              /\ redis'.status = redis.status
              /\ redis'.output = redis.output
              /\ redis'.error = redis.error
      ]_vars

\* ---- C7
\* C7: after an agent handler has raised (the store calls returning
\* normally), that invocation stays the last handler invocation, the run is
\* in its catch block or has ended, and once it has ended the row and the
\* state key both hold failed with a non-empty error.
C7_AgentFailureAborts ==
    (raisedAt # Null /\ ~storeFault) =>
        /\ trace[Len(trace)].node = raisedAt
        /\ trace[Len(trace)].out = Raised
        /\ pc \in {"catch_get", "catch_set", "catch_record", "done"}
        /\ pc = "done" =>
              /\ db.status = "failed"
              /\ db.error # ""
              /\ redis.present
              /\ redis.status = "failed"
              /\ redis.error # ""

C7_Witness ==
    /\ raisedAt # Null
    /\ ~storeFault
    /\ pc = "done"
    /\ Len(trace) >= 3
    /\ db.status = "failed"
    /\ thrown = NonError

\* ---- C8
\* C8: when the background run has ended, whatever the handlers and store
\* calls did, the row holds completed or failed.
C8_RunEndsTerminal == RunEnded => db.status \in Terminal

\* ---- C9
\* C9: once the cancellation signal has been raised between two nodes, no
\* handler is invoked, and the run, all store calls returning normally, ends
\* failed with a cancellation error, the state key holding exactly the node
\* results it held when the signal was raised.
C9_CancelStops ==
    cancelled =>
        /\ ~afterCancel
        /\ (pc = "done" /\ ~storeFault) =>
              /\ db.status = "failed"
              /\ db.error = "Cancelled"
              /\ redis.status = "failed"
              /\ DOMAIN redis.nodeResults = cancelKeys

\* ---- C10
\* C10: a transform node whose expression raises or does not compile returns
\* its input, nothing is thrown, the next step is the store of that result,
\* and a chain run without fault ends completed whatever its transforms do.
C10_TransformFallback ==
    /\ ~dropped =>
         \A i \in 1 .. Len(trace) :
            LET n == FindNode(wf, trace[i].node)
            IN (n.type = "transform" /\ ExprRaises(n.data)) => trace[i].out = trace[i].in
    /\ (pc = "pn_store" /\ Node.type = "transform"
          /\ ExprRaises(Node.data) /\ NoFault) =>
            /\ result = nodeInput
            /\ thrown = NoThrow
    /\ (wf.name = "chain" /\ NoFault /\ pc = "done") => db.status = "completed"

C10_Witness ==
    /\ wf.name = "chain"
    /\ Len(wf.nodes) = 4
    /\ wf.nodes[2].data = "throw"
    /\ wf.nodes[3].data = "syntax"
    /\ wf.nodes[4].type = "agent"
    /\ pc = "done"
    /\ NoFault
    /\ db.status = "completed"
    /\ Len(trace) = 4
    /\ trace[2].out = input


\* ------------------------------------------------ what a poller can read
\* the nodes that have a result in the stored Execution State
ResultKeys == DOMAIN redis.nodeResults

HasCondition(w) == \E i \in 1..Len(w.nodes) : w.nodes[i].type = "condition"

\* C11: whenever the Execution State is there, the nodes with a stored result
\* are the visited nodes other than currentNodeId, with or without
\* currentNodeId itself, and no node has a result while a node visited before it
\* has none; workflows with condition nodes included.
C11_PrefixConsistent ==
    redis.present =>
        /\ \A i \in 1..Len(visitOrder) :
              visitOrder[i] # redis.currentNodeId => visitOrder[i] \in ResultKeys
        /\ \A i, j \in 1..Len(visitOrder) :
              (i < j /\ visitOrder[j] \in ResultKeys) => visitOrder[i] \in ResultKeys

\* the place of node x in the order seq
Pos(seq, x) == CHOOSE i \in 1..Len(seq) : seq[i] = x

\* C12: node results are first written to the Execution State in the order in
\* which the nodes were first visited, whatever the kind of the node.
C12_WritesInVisitOrder ==
    \A i, j \in 1..Len(writeOrder) :
        i < j => Pos(visitOrder, writeOrder[i]) < Pos(visitOrder, writeOrder[j])


\* --------------------------------------------------- concurrent Executions
\* the positions at which the run has written its `state` and not changed it
Synced == {"pn_enter", "pn_handle", "pn_store", "run_final", "run_record",
           "catch_record"}

\* the positions between the update to 'running' and the terminal update
Running == {"run_getState", "run_writeStart", "pn_enter", "pn_handle", "pn_store",
            "run_final", "run_record", "catch_get", "catch_set", "catch_record"}

\* what is stored for the Execution with variables c is what that Execution
\* wrote last, and its end is the end of its own traversal
AsAlone(c) ==
    LET own == kv[StateKey(c.wid, c.eid)]
        row == rows[c.eid]
    IN /\ c.pc \in Synced => own = c.state
       /\ c.pc \in Running => row.status = "running"
       /\ c.pc = "scheduled" =>
             row.status = "pending" /\ own = InitialState(c.input)
       /\ (c.pc = "done" /\ c.thrown = NoThrow) =>
             /\ row.status = "completed"
             /\ row.result = c.result
             /\ own = c.state
             /\ own.status = "completed"
             /\ own.output = c.result
             /\ own.nodeResults[c.trace[Len(c.trace)].node] = c.result
       /\ (c.pc = "done" /\ c.thrown # NoThrow) =>
             /\ row.status = "failed"
             /\ row.error = ErrorMessage(c.thrown)
             /\ own = c.state
             /\ own.status = "failed"

\* C13: with two Executions interleaved at every await, what is stored for
\* each (currentNodeId, nodeResults, status, final result) is what that
\* Execution itself computed and wrote, and a step of one leaves the other's row
\* and state key as they were.
C13_Isolation ==
    /\ [](parked # NoExecution => AsAlone(Context) /\ AsAlone(parked))
    /\ [][ (parked # NoExecution /\ eid' = eid) =>
              /\ rows'[parked.eid] = rows[parked.eid]
              /\ kv'[StateKey(parked.wid, parked.eid)]
                    = kv[StateKey(parked.wid, parked.eid)] ]_vars

\* both Executions, of the same workflow, have run to completion, the second
\* one's traversal having started before the first one's ended
C13_Witness ==
    /\ parked # NoExecution
    /\ wid = parked.wid
    /\ pc = "done"
    /\ parked.pc = "done"
    /\ db.status = "completed"
    /\ rows[parked.eid].status = "completed"
    /\ db.result # rows[parked.eid].result


\* ------------------------------------------------- edits during a run
\* invocation t is what the handler of node n returns for its input
HandlerOf(n, t) ==
    CASE n.type = "trigger" -> t.out = t.in
      [] n.type = "agent" -> t.out \in Values \cup {Raised}
      [] n.type = "condition" ->
            t.out = (IF evaluateCondition(n.data, t.in) THEN 1 ELSE 0)
      [] n.type = "transform" -> t.out = transformData(n.data, t.in)
      [] n.type = "output" -> t.out = formatOutput(n.data, t.in)
      [] OTHER -> FALSE

\* the handler invocations are a traversal of w: the first is w's trigger
\* node, every later one is the target of an edge of w that leaves a node
\* invoked before it, and each is the handler of w's node
Traverses(w) ==
    /\ trace # << >> => trace[1].node = FindTrigger(w).id
    /\ \A i \in 1 .. Len(trace) :
          /\ FindNode(w, trace[i].node) # NoNode
          /\ HandlerOf(FindNode(w, trace[i].node), trace[i])
          /\ i > 1 => \E j \in 1 .. (i - 1), k \in 1 .. Len(w.edges) :
                         /\ w.edges[k].source = trace[j].node
                         /\ w.edges[k].target = trace[i].node

\* C14: whatever update or deletion of the stored definition happens while
\* the Execution is pending or running, the run keeps the definition it read
\* at the start request, and the handlers invoked are a traversal of that one.
C14_DefinitionAsRead ==
    /\ [](~dropped => Traverses(wf))
    /\ [][wf # NoWorkflow => wf' = wf]_vars

\* a run that ended completed although the stored definition was replaced
\* while it was running
C14_Witness ==
    /\ table # wf
    /\ wf # NoWorkflow
    /\ Len(trace) > 1
    /\ pc = "done"
    /\ db.status = "completed"


\* ------------------------------------------------------ the start request
StartPositions == {"start_load", "start_insert", "start_setState", "svc_load",
                   "svc_insert", "svc_setState", "start_rejected"}

NonTerminal == {"pending", "running"}

C16_PendingFirst ==
    [][ /\ (db.status = "none" /\ db'.status # "none") => db'.status = "pending"
        /\ (db.status # "running" /\ db'.status = "running") => db.status = "pending"
      ]_vars

\* C20: a start request for a workflow that does not exist for the user ends
\* with the not-found error (the lookup itself having returned normally) and
\* leaves nothing behind: no row, no state key, no scheduled run, no handler call.
C20_UnknownWorkflowNoEffect ==
    ~found =>
        /\ pc \in {"start_load", "start_rejected"}
        /\ (pc = "start_rejected" /\ ~storeFault) => thrown = Err("Workflow not found")
        /\ ~returned
        /\ \A i \in ExecIds : rows[i] = NoRow
        /\ \A k \in Keys : ~kv[k].present
        /\ trace = << >>

C20_Witness ==
    /\ ~found
    /\ pc = "start_rejected"
    /\ thrown = Err("Workflow not found")
    /\ db = NoRow
    /\ ~redis.present


C18_SameUpdateTwice ==
    [][(ReapplyCompleted \/ ReapplyFailed) => rows' = rows]_vars

\* -------------------------------------------------------------- polling
\* C19: a poll of an Execution whose row exists and whose state key is gone
\* returns the row with state null, not null for the whole; and the key of a
\* started Execution is gone only when a full retention window has passed
\* since the last write to it.
C19_ExpiredStateAbsent ==
    /\ (db.status # "none" /\ ~redis.present) =>
          /\ getWorkflowExecution(wid, eid).found
          /\ getWorkflowExecution(wid, eid).execution = db
          /\ ~getWorkflowExecution(wid, eid).state.present
    /\ (db.status # "none" /\ redis.present) =>
          getWorkflowExecution(wid, eid).state = redis
    /\ (returned /\ ~redis.present) =>
          clock >= written[StateKey(wid, eid)] + Retention

\* the key of an Execution that is still running has lapsed, and the poll
\* returns its row without a state
C19_Witness ==
    /\ returned
    /\ db.status = "running"
    /\ ~redis.present
    /\ clock >= written[StateKey(wid, eid)] + Retention
    /\ getWorkflowExecution(wid, eid).found
    /\ ~getWorkflowExecution(wid, eid).state.present

\* ------------------------------------------------- the state after a failure
\* invocation i returned, and is the last invocation of its node that did
LastReturn(i) ==
    /\ trace[i].out # Raised
    /\ \A j \in (i + 1) .. Len(trace) :
          trace[j].node = trace[i].node => trace[j].out = Raised

\* C21: the failed transition only sets status and error on the state it
\* read: with store calls returning normally, the state after a failure has the
\* result of every non-condition node whose handler returned, as returned, and
\* the write of the failed state changes no other field of the stored state.
C21_FailureKeepsResults ==
    /\ []((pc \in {"catch_record", "done"} /\ thrown # NoThrow /\ ~storeFault) =>
            /\ redis.present
            /\ redis.status = "failed"
            /\ redis.error = ErrorMessage(thrown)
            /\ \A i \in 1 .. Len(trace) :
                  (LastReturn(i) /\ FindNode(wf, trace[i].node).type # "condition") =>
                      /\ trace[i].node \in DOMAIN redis.nodeResults
                      /\ redis.nodeResults[trace[i].node] = trace[i].out)
    /\ [][ (pc = "catch_get" /\ pc' = "catch_set") =>
              state' = [redis EXCEPT !.status = "failed", !.error = state'.error] ]_vars
    /\ [][ (pc = "catch_set" /\ pc' = "catch_record") => redis' = state ]_vars

\* the agent of the third node raised, and the failed state has the results
\* of the two nodes before it
C21_Witness ==
    /\ pc = "done"
    /\ ~storeFault
    /\ raisedAt = 2
    /\ redis.present
    /\ redis.status = "failed"
    /\ DOMAIN redis.nodeResults = {0, 1}
    /\ redis.nodeResults[1] = trace[2].out

\* --------------------------------------------------- where a traversal ends
\* node n of w is an output node or has no outgoing edge
Finishing(w, n) ==
    FindNode(w, n).type = "output" \/ Len(OutEdges(w, n)) = 0

\* C22: once the handler of an output node, or of a node without outgoing
\* edges, has returned, no handler is invoked any more, and a run that ends
\* without fault ends completed with that node's result; also when the node
\* was reached through the branch of a condition node.
C22_FinishAtOutput ==
    (wf # NoWorkflow /\ ~dropped) =>
        \A i \in 1 .. Len(trace) :
            (trace[i].out # Raised /\ Finishing(wf, trace[i].node)) =>
                /\ i = Len(trace)
                /\ (pc = "done" /\ NoFault) =>
                      /\ db.status = "completed"
                      /\ db.result = trace[i].out

\* ------------------------------------------------------- condition nodes
\* invocation i is of a condition node none of whose edges has the label of
\* the value it evaluated to
Unmatched(i) ==
    /\ FindNode(wf, trace[i].node).type = "condition"
    /\ \A k \in 1 .. Len(wf.edges) :
          wf.edges[k].source = trace[i].node =>
              wf.edges[k].sourceHandle # (IF trace[i].out = 1 THEN "true" ELSE "false")

\* C23: a condition node with no edge labelled with its result throws 'No
\* edge found for condition result': no handler is invoked after it, and the
\* run, its store calls returning normally, ends failed with that error.
C23_NoMatchingEdgeFails ==
    (wf # NoWorkflow /\ ~dropped) =>
        \A i \in 1 .. Len(trace) :
            Unmatched(i) =>
                /\ i = Len(trace)
                /\ thrown = Err("No edge found for condition result")
                /\ pc \in {"catch_get", "catch_set", "catch_record", "done", "crashed"}
                /\ (pc = "done" /\ ~storeFault) =>
                      /\ db.status = "failed"
                      /\ db.error = "No edge found for condition result"
                      /\ redis.status = "failed"

C23_Witness ==
    /\ wf = CondOneEdge("true")
    /\ input = 1
    /\ Len(trace) = 2
    /\ Unmatched(2)
    /\ pc = "done"
    /\ db.status = "failed"
    /\ db.error = "No edge found for condition result"

\* C24: when the expression of a condition node raises, no branch is followed
\* (no handler is invoked after the condition node) and the run, its store
\* calls returning normally, ends failed with an error.
C24_ConditionErrorFails ==
    (wf # NoWorkflow /\ ~dropped) =>
        \A i \in 1 .. Len(trace) :
            (/\ FindNode(wf, trace[i].node).type = "condition"
             /\ ExprRaises(FindNode(wf, trace[i].node).data)) =>
                /\ i = Len(trace)
                /\ (pc = "done" /\ ~storeFault) =>
                      /\ db.status = "failed"
                      /\ db.error # ""

\* ---------------------------------------------------------- invalid graphs
\* some edge of w has a source or a target that is no node of w
HasDanglingEdge(w) ==
    \E k \in 1 .. Len(w.edges) :
        \/ FindNode(w, w.edges[k].source) = NoNode
        \/ FindNode(w, w.edges[k].target) = NoNode

\* C25: an Execution of a workflow with an edge to or from a missing node
\* has no handler invoked, never has status running in the row or in the
\* state, and is failed when the run has ended.
C25_DanglingEdgeRejected ==
    (wf # NoWorkflow /\ HasDanglingEdge(wf)) =>
        /\ trace = << >>
        /\ db.status # "running"
        /\ redis.status # "running"
        /\ (pc = "done" /\ ~storeFault) => db.status = "failed"

\* ------------------------------------------------ persist, then go on
\* C26: when a handler is invoked, the stored state has the result of every
\* node whose handler was invoked before it, whatever the kind of the node.
C26_StoredBeforeNext ==
    (redis.present /\ ~dropped) =>
        \A i \in 1 .. (Len(trace) - 1) : trace[i].node \in ResultKeys


\* the booleans true and false as stored results: values that are neither
\* numbers, their JSON texts, nor null
BoolValue(b) == IF b THEN Raised - 1 ELSE Raised - 2

\* invocation i is of a condition node, and the expression evaluated to b
Evaluated(i, b) ==
    /\ FindNode(wf, trace[i].node).type = "condition"
    /\ trace[i].out = (IF b THEN 1 ELSE 0)

\* the handler invoked after invocation i is the one of the target of the
\* first edge labelled with b
FollowsLabel(i, b) ==
    i < Len(trace) =>
        LET nextEdge == BranchEdge(OutEdges(wf, trace[i].node), b)
        IN nextEdge # NoEdge /\ trace[i + 1].node = nextEdge.target

\* C27: the result stored in nodeResults for a condition node is the boolean
\* its expression evaluated to, and the handler invoked next is the target of
\* the edge labelled with that boolean.
C27_ConditionResultIsBoolean ==
    (wf # NoWorkflow /\ ~dropped) =>
        \A i \in 1 .. Len(trace) : \A b \in BOOLEAN :
            Evaluated(i, b) =>
                /\ FollowsLabel(i, b)
                /\ (redis.present /\ trace[i].node \in ResultKeys) =>
                      redis.nodeResults[trace[i].node] = BoolValue(b)


\* ------------------------------------------------------ one visit per node
NodeIds(w) == { w.nodes[i].id : i \in 1 .. Len(w.nodes) }

\* the targets of the edges that leave a node of S
Successors(w, S) ==
    { w.edges[k].target : k \in { j \in 1 .. Len(w.edges) : w.edges[j].source \in S } }

\* the nodes reached from S along one to k edges
RECURSIVE ReachableIn(_, _, _)
ReachableIn(w, S, k) ==
    IF k = 0
    THEN {}
    ELSE Successors(w, S) \cup ReachableIn(w, Successors(w, S), k - 1)

Acyclic(w) == \A n \in NodeIds(w) : n \notin ReachableIn(w, {n}, Len(w.edges))

\* C28: in an Execution of an acyclic workflow no node's handler is invoked
\* twice; an agent node behind a condition node is called at most once.
C28_AtMostOnce ==
    (wf # NoWorkflow /\ Acyclic(wf) /\ ~dropped) =>
        \A i, j \in 1 .. Len(trace) : i < j => trace[i].node # trace[j].node


C29_StateAhead ==
    /\ redis.present
    /\ redis.status \in Terminal
    /\ db.status = "running"


\* ------------------------------------------------- several outgoing edges
\* the places in w.edges of the edges that leave node n
EdgesFrom(w, n) == { k \in 1 .. Len(w.edges) : w.edges[k].source = n }

\* the target of the edge leaving n that is defined first
FirstTarget(w, n) ==
    w.edges[CHOOSE k \in EdgesFrom(w, n) : \A j \in EdgesFrom(w, n) : k <= j].target

\* invocation i returned, of a node that is neither a condition nor an output
\* node and has several outgoing edges
FansOut(i) ==
    /\ trace[i].out # Raised
    /\ FindNode(wf, trace[i].node).type \notin {"condition", "output"}
    /\ Cardinality(EdgesFrom(wf, trace[i].node)) > 1

\* C30: after a node that is neither a condition nor an output node and has
\* several outgoing edges, the handler invoked next is the one of the target
\* of its first edge in definition order, with the node's result as input; in
\* a workflow without condition nodes a target of one of its other edges that
\* is not reached from the first one is never visited.
C30_FirstEdgeOnly ==
    (wf # NoWorkflow /\ ~dropped) =>
        \A i \in 1 .. Len(trace) :
            FansOut(i) =>
                LET n == trace[i].node
                    first == FirstTarget(wf, n)
                IN /\ i < Len(trace) =>
                          /\ trace[i + 1].node = first
                          /\ trace[i + 1].in = trace[i].out
                   /\ ~HasCondition(wf) =>
                          \A k \in EdgesFrom(wf, n) :
                              wf.edges[k].target \notin
                                      ({first} \cup ReachableIn(wf, {first}, Len(wf.edges)))
                                  => ~Visited(wf.edges[k].target)

C30_Witness ==
    /\ wf = FanOut
    /\ pc = "done"
    /\ db.status = "completed"
    /\ Len(trace) = 3
    /\ FansOut(2)
    /\ trace[3].node = 2
    /\ trace[3].in = trace[2].out
    /\ ~Visited(3)

====
